---- MODULE Spec2Model ----
(***************************************************************************)
(* ChillDKG reference implementation (python/chilldkg_ref/chilldkg.py).    *)
(*                                                                         *)
(* Byte strings are sequences of integers, Python lists are sequences      *)
(* (position idx of a list is element idx + 1), an Optional value is <<>>  *)
(* for None and <<v>> for a value v.  The secp256k1 group is modelled by   *)
(* the additive group of integers modulo the prime Q with generator G, a   *)
(* scalar is an integer modulo Q, hashes are arithmetic mixing functions   *)
(* and BIP340 signatures are ideal: a signature verifies only for the key, *)
(* message, tag and nonce it was made with.                                *)
(***************************************************************************)
EXTENDS Integers, Sequences, FiniteSets, TLC

\* ---------------------------------------------------------------- bounds
MaxN == 2          \* largest number of participants of a session

\* ------------------------------------------------------- program constants
SEED_LEN == 32     \* len(seed) != 32
T_LEN == 4         \* t (4 bytes)
POINT_LEN == 33    \* compressed point
SCALAR_LEN == 32   \* scalar
SIG_LEN == 64      \* BIP340 signature
CERTEQ_MSG_TAG == "BIP DKG/certeq message"

\* ------------------------------------------------------------ byte strings
Min(a, b) == IF a < b THEN a ELSE b
Max(a, b) == IF a < b THEN b ELSE a

Zeros(k) == [i \in 1..k |-> 0]

\* Python's b[lo:hi] for 0 <= lo, 0 <= hi (both clamped to the length).
Slice(b, lo, hi) == SubSeq(b, Min(lo, Len(b)) + 1, Min(hi, Len(b)))

\* Python's b[lo:]
Drop(b, lo) == SubSeq(b, Min(lo, Len(b)) + 1, Len(b))

RECURSIVE Join(_)
\* b"".join(list)
Join(list) == IF list = <<>> THEN <<>> ELSE Head(list) \o Join(Tail(list))

\* Python's list.index(x): the first position (from 0) holding x, -1 if absent
\* (where Python raises ValueError).
Index(list, x) ==
    IF \E i \in 1..Len(list) : list[i] = x
    THEN (CHOOSE i \in 1..Len(list) :
             list[i] = x /\ \A j \in 1..(i - 1) : list[j] # x) - 1
    ELSE -1

\* Python's list.pop(idx) as the remaining list.
Without(list, idx) ==
    [i \in 1..(Len(list) - 1) |-> IF i <= idx THEN list[i] ELSE list[i + 1]]

RECURSIVE SumSeq(_, _, _)
\* s[lo] + ... + s[hi]
SumSeq(s, lo, hi) ==
    IF lo > hi THEN 0
    ELSE IF lo = hi THEN s[lo]
    ELSE LET mid == (lo + hi) \div 2
         IN  SumSeq(s, lo, mid) + SumSeq(s, mid + 1, hi)

RECURSIVE Pow(_, _)
Pow(b, e) == IF e = 0 THEN 1 ELSE b * Pow(b, e - 1)

\* v.to_bytes(4, "big") for 0 <= v < 2^31
int_to_bytes4(v) == [i \in 1..T_LEN |-> (v \div Pow(256, T_LEN - i)) % 256]

RECURSIVE int_from_bytes_be(_, _)
\* int.from_bytes(b, "big"), accumulated from the left
int_from_bytes_be(b, acc) ==
    IF b = <<>> THEN acc ELSE int_from_bytes_be(Tail(b), acc * 256 + Head(b))

\* ------------------------------------------------------------- the group
Q == 7             \* order of the group
G == 3             \* the generator, a point

ScalarMod(v) == v % Q

\* Scalar(int_from_bytes(b)): the big-endian value of b reduced modulo Q
\* (256^k is taken modulo Q, and 256^(Q-1) = 1 modulo the prime Q)
Scalar_from_bytes(b) ==
    SumSeq([i \in 1..Len(b) |->
               (b[i] * Pow(256 % Q, (Len(b) - i) % (Q - 1))) % Q], 1, Len(b)) % Q

\* bytes_from_int(int(share)): 32 bytes big-endian
bytes_from_int(v) ==
    [i \in 1..SCALAR_LEN |->
        IF i > SCALAR_LEN - 3 THEN (v \div Pow(256, SCALAR_LEN - i)) % 256 ELSE 0]

\* s * P for a scalar s and a point P; P + R for points
PointMul(s, P) == (s * P) % Q
PointAdd(P, R) == (P + R) % Q
INFINITY == 0

\* GE.to_bytes_compressed_with_infinity
GE_to_bytes(P) ==
    IF P = INFINITY THEN Zeros(POINT_LEN)
    ELSE <<2>> \o Zeros(POINT_LEN - 2) \o <<P>>

\* whether GE.from_bytes_compressed(b) returns (it raises ValueError otherwise)
GE_valid(b) ==
    /\ Len(b) = POINT_LEN
    /\ b[1] = 2
    /\ \A i \in 2..(POINT_LEN - 1) : b[i] = 0
    /\ b[POINT_LEN] \in 1..(Q - 1)

GE_valid_with_infinity(b) == GE_valid(b) \/ b = Zeros(POINT_LEN)

\* the point a valid encoding denotes
GE_from_bytes(b) == b[POINT_LEN]

\* pubkey_gen_plain(seckey)
pubkey_gen_plain(seckey) == GE_to_bytes(PointMul(seckey, G))

\* ----------------------------------------------------------------- hashes
\* a tagged hash of the byte string b, as a number below 251; tag is a number
TaggedHash(tag, b) ==
    (tag + 1 + SumSeq([i \in 1..Len(b) |->
                         ((b[i] + 1) * (1 + ((7 * i * i + 3 * i) % 250))) % 251],
                      1, Len(b))) % 251

\* prf(seed, tag) read as a nonzero scalar; seeds that differ in their last
\* byte alone, by less than Q - 1, get different values
prf(seed, tag) == 1 + ((5 * SumSeq(seed, 1, Len(seed)) + tag) % (Q - 1))

\* ------------------------------------------------------- BIP340 signatures
TagByte(tag) == IF tag = CERTEQ_MSG_TAG THEN 1 ELSE 0

\* The part of a signature that only the holder of the key of xonly_pk can
\* compute: it fixes the key, the tag, the nonce and the message (its length,
\* its digest and its first bytes).
SigBody(msg, xonly_pk, aux, tag) ==
    <<xonly_pk[Len(xonly_pk)], TagByte(tag), aux,
      Len(msg) \div 256, Len(msg) % 256, TaggedHash(TagByte(tag), msg)>> \o
    [i \in 1..(SCALAR_LEN - 6) |-> IF i <= Len(msg) THEN msg[i] ELSE 0]

\* schnorr_sign(msg, seckey, aux_rand, challenge_tag): 64 bytes
schnorr_sign(msg, seckey, aux, tag) ==
    LET pk == pubkey_gen_plain(seckey)
    IN  (Zeros(SCALAR_LEN - 1) \o <<aux>>)
        \o SigBody(msg, Slice(pk, 1, POINT_LEN), aux, tag)

\* schnorr_verify(msg, xonly_pk, sig, challenge_tag)
schnorr_verify(msg, xonly_pk, sig, tag) ==
    /\ Len(sig) = SIG_LEN
    /\ Len(xonly_pk) = SCALAR_LEN
    /\ \A i \in 1..(SCALAR_LEN - 1) : sig[i] = 0
    /\ Slice(sig, SCALAR_LEN, SIG_LEN) = SigBody(msg, xonly_pk, sig[SCALAR_LEN], tag)

\* ------------------------------------------------ equality check CertEq
certeq_message(x, idx) == int_to_bytes4(idx)

\* aux stands for random_bytes(32)
certeq_participant_step(hostseckey_, idx, x, aux) ==
    schnorr_sign(certeq_message(x, idx), hostseckey_, aux, CERTEQ_MSG_TAG)

certeq_cert_len(n) == SIG_LEN * n

\* certeq_verify without the comparison of len(cert) with certeq_cert_len(n)
certeq_verify_without_length_check(hostpubkeys, x, cert) ==
    LET n == Len(hostpubkeys)
    IN  \A i \in 0..(n - 1) :
            schnorr_verify(certeq_message(x, i),
                           Slice(hostpubkeys[i + 1], 1, 33),
                           Slice(cert, i * 64, (i + 1) * 64),
                           CERTEQ_MSG_TAG)

certeq_verify(hostpubkeys, x, cert) ==
    LET n == Len(hostpubkeys)
    IN  IF Len(cert) # certeq_cert_len(n) THEN FALSE
        ELSE \A i \in 0..(n - 1) :
                schnorr_verify(certeq_message(x, i),
                               Slice(hostpubkeys[i + 1], 1, 33),
                               Slice(cert, i * 64, (i + 1) * 64),
                               CERTEQ_MSG_TAG)

certeq_coordinator_step(sigs) == Join(sigs)

\* --------------------------------------------------------------- host keys
\* prf(seed, "chilldkg hostseckey"); tag 0 stands for the string
hostseckey(seed) == prf(seed, 0)

\* hostkeypair(seed): [ok |-> FALSE] stands for ValueError
hostkeypair(seed) ==
    IF Len(seed) # SEED_LEN THEN [ok |-> FALSE, seckey |-> 0, pubkey |-> <<>>]
    ELSE [ok |-> TRUE, seckey |-> hostseckey(seed),
          pubkey |-> pubkey_gen_plain(hostseckey(seed))]

\* the derivations that hostkeypair(seed) makes, in order (none when it raises)
hostkeypair_calls(seed) ==
    IF Len(seed) # SEED_LEN THEN <<>> ELSE <<"prf", "pubkey_gen_plain">>

\* ---------------------------------------------------- session parameters
SessionParams(hostpubkeys, t) == [hostpubkeys |-> hostpubkeys, t |-> t]

NoError == [kind |-> "none", i |-> -1]
Error(kind) == [kind |-> kind, i |-> -1]
InvalidContributionError(i) == [kind |-> "InvalidContributionError", i |-> i]

\* params_validate looking for duplicates before it decodes the keys
params_validate_duplicates_first(params) ==
    LET hostpubkeys == params.hostpubkeys
        t == params.t
        bad == {i \in 0..(Len(hostpubkeys) - 1) : ~GE_valid(hostpubkeys[i + 1])}
    IN  IF ~(1 <= t /\ t <= Len(hostpubkeys)) THEN Error("ThresholdError")
        ELSE IF Len(hostpubkeys) # Cardinality({hostpubkeys[i] : i \in 1..Len(hostpubkeys)})
        THEN Error("DuplicateHostpubkeyError")
        ELSE IF bad # {}
        THEN InvalidContributionError(CHOOSE i \in bad : \A j \in bad : i <= j)
        ELSE NoError

\* params_validate(params): NoError when it returns, the exception otherwise
params_validate(params) ==
    LET hostpubkeys == params.hostpubkeys
        t == params.t
        bad == {i \in 0..(Len(hostpubkeys) - 1) : ~GE_valid(hostpubkeys[i + 1])}
    IN  IF ~(1 <= t /\ t <= Len(hostpubkeys)) THEN Error("ThresholdError")
        ELSE IF bad # {}
        THEN InvalidContributionError(CHOOSE i \in bad : \A j \in bad : i <= j)
        ELSE IF Len(hostpubkeys) # Cardinality({hostpubkeys[i] : i \in 1..Len(hostpubkeys)})
        THEN Error("DuplicateHostpubkeyError")
        ELSE NoError

\* Python integers of more than 31 bits: <<hi, lo>> is the integer
\* hi * 2^16 + lo, for 0 <= lo < 2^16
Wide(hi, lo) == <<hi, lo>>
WideLeq(a, b) == a[1] < b[1] \/ (a[1] = b[1] /\ a[2] <= b[2])
\* v.to_bytes(4, "big") succeeds (v < 2^32)
WideFits4Bytes(v) == v[1] < Pow(256, 2)

\* params_validate on a list of n pairwise distinct decodable host public keys
\* and the threshold t, n and t wide: the loop over the keys raises nothing and
\* the list has the length of its set
params_validate_distinct_keys(n, t) ==
    IF ~(WideLeq(Wide(0, 1), t) /\ WideLeq(t, n)) THEN Error("ThresholdError")
    ELSE NoError

\* ------------------------------------------------------------------- VSS
RECURSIVE PolyEval(_, _, _)
\* f(x) for the coefficient list f (constant term first), modulo Q
PolyEval(f, x, k) ==
    IF k > Len(f) THEN 0
    ELSE (f[k] * (Pow(x, k - 1) % Q) + PolyEval(f, x, k + 1)) % Q

\* VSS.generate(seed, t): the t coefficients of the polynomial
VSS_generate(seed, t) == [k \in 1..t |-> TaggedHash(10 + k, <<seed>>) % Q]

\* vss.secshare_for(i) = f(i + 1)
VSS_secshare_for(f, i) == PolyEval(f, i + 1, 1)

\* vss.commit(): the k-th entry is f_k * G
VSS_commit(f) == [k \in 1..Len(f) |-> PointMul(f[k], G)]

\* VSSCommitment.commitment_to_secret(): the constant term
commitment_to_secret(coms) == coms[1]

\* VSSCommitment.pubshare(i): the commitment evaluated at i + 1
pubshare(coms, i) == PolyEval(coms, i + 1, 1)

\* VSSCommitment.verify_secshare(secshare, pubshare)
verify_secshare(secshare, pubshare_) == PointMul(secshare, G) = pubshare_

\* VSSCommitment.to_bytes()
VSSCommitment_to_bytes(coms) == Join([k \in 1..Len(coms) |-> GE_to_bytes(coms[k])])

\* whether VSSCommitment.from_bytes_and_t(b, t) returns, for Len(b) = 33 * t
VSSCommitment_valid(b, t) ==
    \A k \in 0..(t - 1) :
        GE_valid_with_infinity(Slice(b, POINT_LEN * k, POINT_LEN * (k + 1)))

VSSCommitment_from_bytes_and_t(b, t) ==
    [k \in 1..t |-> GE_from_bytes(Slice(b, POINT_LEN * (k - 1), POINT_LEN * k))]

\* sum of a list of commitments of length t, coefficient by coefficient
RECURSIVE SumComs(_, _)
SumComs(list, t) ==
    IF list = <<>> THEN [k \in 1..t |-> INFINITY]
    ELSE [k \in 1..t |-> PointAdd(Head(list)[k], SumComs(Tail(list), t)[k])]

\* ------------------------------------------------------------- EncPedPop
DKGOutput(secshare, threshold_pubkey, pubshares) ==
    [secshare |-> secshare, threshold_pubkey |-> threshold_pubkey,
     pubshares |-> pubshares]

NoOutput == DKGOutput(<<>>, <<>>, <<>>)

\* encpedpop.serialize_enc_context(t, hostpubkeys)
serialize_enc_context(t, hostpubkeys) == int_to_bytes4(t) \o Join(hostpubkeys)

\* encpedpop.derive_session_seed(seed, pubnonce, enc_context)
derive_session_seed(seed, pubnonce, enc_context) ==
    TaggedHash(2, seed \o pubnonce \o enc_context)

\* the nonzero nonce scalar k of participant_step1
derive_nonce(seed, random, idx, enc_context) ==
    1 + (TaggedHash(3, seed \o random \o int_to_bytes4(idx) \o enc_context) % (Q - 1))

\* the pad between sender and receiver: H(ecdh || enc_context || sender || receiver)
pad(ecdh, enc_context, sender, receiver) ==
    TaggedHash(4, GE_to_bytes(ecdh) \o enc_context
                  \o int_to_bytes4(sender) \o int_to_bytes4(receiver)) % Q

\* position j of a list of the n - 1 parties other than idx is party OtherOf(idx, j)
OtherOf(idx, j) == IF j < idx THEN j ELSE j + 1

RECURSIVE SumPads(_, _, _, _, _)
SumPads(seckey, their_pubnonces, enc_context, idx, m) ==
    IF m > Len(their_pubnonces) THEN 0
    ELSE (pad(PointMul(seckey, GE_from_bytes(their_pubnonces[m])),
              enc_context, OtherOf(idx, m - 1), idx)
          + SumPads(seckey, their_pubnonces, enc_context, idx, m + 1)) % Q

\* encpedpop.decrypt_sum: the encrypted sum minus the pads of the other parties
decrypt_sum(seckey, hostpubkey_, their_pubnonces, enc_secshare, enc_context, idx) ==
    (enc_secshare + Q - SumPads(seckey, their_pubnonces, enc_context, idx, 1)) % Q

\* encpedpop.participant_step1(seed, t, hostpubkeys, idx, random)
encpedpop_participant_step1(seed, t, hostpubkeys, idx, random) ==
    LET n == Len(hostpubkeys)
        enc_context == serialize_enc_context(t, hostpubkeys)
        k == derive_nonce(seed, random, idx, enc_context)
        pubnonce == GE_to_bytes(PointMul(k, G))
        f == VSS_generate(derive_session_seed(seed, pubnonce, enc_context), t)
        enc_shares ==
            [m \in 1..(n - 1) |->
                LET j == OtherOf(idx, m - 1)
                IN  (VSS_secshare_for(f, j)
                     + pad(PointMul(k, GE_from_bytes(hostpubkeys[j + 1])),
                           enc_context, idx, j)) % Q]
    IN  [state |-> [t |-> t, hostpubkeys |-> hostpubkeys, idx |-> idx, k |-> k,
                    com |-> VSS_commit(f), pubnonce |-> pubnonce,
                    my_share |-> VSS_secshare_for(f, idx)],
         msg |-> [com |-> VSS_commit(f), pubnonce |-> pubnonce,
                  enc_shares |-> enc_shares]]

RECURSIVE SumShares(_, _, _)
\* the sum over the senders i # j, from sender i on, of enc_share_{i -> j}
SumShares(pmsgs, j, i) ==
    IF i >= Len(pmsgs) THEN 0
    ELSE IF i = j THEN SumShares(pmsgs, j, i + 1)
    ELSE (pmsgs[i + 1].enc_shares[(IF j < i THEN j ELSE j - 1) + 1]
          + SumShares(pmsgs, j, i + 1)) % Q

\* the part of eq_input that EncPedPop computes
encpedpop_eq_input(t, sum_coms, hostpubkeys, pubnonces) ==
    int_to_bytes4(t) \o VSSCommitment_to_bytes(sum_coms)
    \o Join(hostpubkeys) \o Join(pubnonces)

\* encpedpop.coordinator_step(pmsgs, t, hostpubkeys), for Len(pmsgs) = n
encpedpop_coordinator_step(pmsgs, t, hostpubkeys) ==
    LET n == Len(hostpubkeys)
        bad == {i \in 0..(n - 1) : Len(pmsgs[i + 1].com) # t}
        sum_coms == SumComs([i \in 1..n |-> pmsgs[i].com], t)
        pubnonces == [i \in 1..n |-> pmsgs[i].pubnonce]
        enc_secshares == [j \in 1..n |-> SumShares(pmsgs, j - 1, 0)]
    IN  IF bad # {}
        THEN [err |-> InvalidContributionError(CHOOSE i \in bad : \A j \in bad : i <= j),
              enc_cmsg |-> <<>>, dkg_output |-> NoOutput, eq_input |-> <<>>,
              enc_secshares |-> <<>>]
        ELSE [err |-> NoError,
              enc_cmsg |-> [sum_coms |-> sum_coms, pubnonces |-> pubnonces],
              dkg_output |->
                  DKGOutput(<<>>, GE_to_bytes(commitment_to_secret(sum_coms)),
                            [i \in 1..n |-> GE_to_bytes(pubshare(sum_coms, i - 1))]),
              eq_input |-> encpedpop_eq_input(t, sum_coms, hostpubkeys, pubnonces),
              enc_secshares |-> enc_secshares]

\* encpedpop.participant_step2(enc_state, hostseckey, enc_cmsg, enc_secshare)
encpedpop_participant_step2(enc_state, seckey, enc_cmsg, enc_secshare) ==
    LET t == enc_state.t
        hostpubkeys == enc_state.hostpubkeys
        n == Len(hostpubkeys)
        idx == enc_state.idx
        sum_coms == enc_cmsg.sum_coms
        pubnonces == enc_cmsg.pubnonces
        enc_context == serialize_enc_context(t, hostpubkeys)
        secshare ==
            (decrypt_sum(seckey, hostpubkeys[idx + 1], Without(pubnonces, idx),
                         enc_secshare, enc_context, idx)
             + enc_state.my_share) % Q
    IN  IF Len(sum_coms) # t \/ Len(pubnonces) # n
        THEN [err |-> Error("InvalidContributionError"),
              dkg_output |-> NoOutput, eq_input |-> <<>>]
        ELSE IF ~verify_secshare(secshare, pubshare(sum_coms, idx))
        THEN [err |-> Error("InvalidContributionError"),
              dkg_output |-> NoOutput, eq_input |-> <<>>]
        ELSE [err |-> NoError,
              dkg_output |->
                  DKGOutput(bytes_from_int(secshare),
                            GE_to_bytes(commitment_to_secret(sum_coms)),
                            [i \in 1..n |-> GE_to_bytes(pubshare(sum_coms, i - 1))]),
              eq_input |-> encpedpop_eq_input(t, sum_coms, hostpubkeys, pubnonces)]

\* ---------------------------------------------------------- recovery data
\* deserialize_recovery_data(b): [ok |-> FALSE] stands for ValueError
deserialize_recovery_data(b) ==
    LET fail == [ok |-> FALSE, t |-> 0, sum_coms |-> <<>>, hostpubkeys |-> <<>>,
                 pubnonces |-> <<>>, enc_secshares |-> <<>>, cert |-> <<>>]
    IN
    IF Len(b) < 4 THEN fail
    ELSE
    LET t == int_from_bytes_be(Slice(b, 0, 4), 0)
        rest1 == Drop(b, 4)
    IN
    IF Len(rest1) < 33 * t THEN fail
    ELSE IF ~VSSCommitment_valid(Slice(rest1, 0, 33 * t), t) THEN fail
    ELSE
    LET sum_coms == VSSCommitment_from_bytes_and_t(Slice(rest1, 0, 33 * t), t)
        rest2 == Drop(rest1, 33 * t)
        n == Len(rest2) \div (33 + 33 + 32 + 64)
        remainder == Len(rest2) % (33 + 33 + 32 + 64)
    IN
    IF remainder # 0 THEN fail
    ELSE IF Len(rest2) < 33 * n THEN fail
    ELSE
    LET hostpubkeys == [i \in 1..n |-> Slice(rest2, 33 * (i - 1), 33 * (i - 1) + 33)]
        rest3 == Drop(rest2, 33 * n)
    IN
    IF Len(rest3) < 33 * n THEN fail
    ELSE
    LET pubnonces == [i \in 1..n |-> Slice(rest3, 33 * (i - 1), 33 * (i - 1) + 33)]
        rest4 == Drop(rest3, 33 * n)
    IN
    IF Len(rest4) < 32 * n THEN fail
    ELSE
    LET enc_secshares ==
            [i \in 1..n |-> Scalar_from_bytes(Slice(rest4, 32 * (i - 1), 32 * (i - 1) + 32))]
        rest5 == Drop(rest4, 32 * n)
        cert_len == certeq_cert_len(n)
    IN
    IF Len(rest5) < cert_len THEN fail
    ELSE
    LET cert == Slice(rest5, 0, cert_len)
        rest6 == Drop(rest5, cert_len)
    IN
    IF Len(rest6) # 0 THEN fail
    ELSE [ok |-> TRUE, t |-> t, sum_coms |-> sum_coms, hostpubkeys |-> hostpubkeys,
          pubnonces |-> pubnonces, enc_secshares |-> enc_secshares, cert |-> cert]

\* params_id(params): the 32-byte fingerprint, as the hash value in 32 bytes
params_id(params) ==
    LET v == params_validate(params)
    IN  IF v # NoError THEN [err |-> v, id |-> <<>>]
        ELSE [err |-> NoError,
              id |-> bytes_from_int(
                        TaggedHash(5, int_to_bytes4(params.t) \o Join(params.hostpubkeys)))]

\* the calls that params_id(params) makes, in order, up to the one that raises
params_id_calls(params) ==
    IF params_validate(params) # NoError THEN <<"params_validate">>
    ELSE <<"params_validate", "to_bytes", "tagged_hash_bip_dkg">>

\* -------------------------------------------------------------- participant
\* the encoded shares without the last one
EncSharesBytes_dropping_last(enc_secshares) ==
    Join([i \in 1..(Len(enc_secshares) - 1) |-> bytes_from_int(enc_secshares[i])])

\* b"".join([bytes_from_int(int(share)) for share in enc_secshares])
EncSharesBytes(enc_secshares) ==
    Join([i \in 1..Len(enc_secshares) |-> bytes_from_int(enc_secshares[i])])

NoState1 == [params |-> SessionParams(<<>>, 0), idx |-> -1, enc_state |-> <<>>]
NoState2 == [params |-> SessionParams(<<>>, 0), eq_input |-> <<>>, dkg_output |-> NoOutput]

\* participant_step1 taking the first position instead of looking its key up
participant_step1_first_position(seed, params, random) ==
    LET kp == hostkeypair(seed)
        v == params_validate(params)
        enc == encpedpop_participant_step1(seed, params.t, params.hostpubkeys, 0, random)
        fail(e) == [err |-> e, state1 |-> NoState1, pmsg1 |-> <<>>]
    IN  IF ~kp.ok THEN fail(Error("ValueError"))
        ELSE IF v # NoError THEN fail(v)
        ELSE [err |-> NoError,
              state1 |-> [params |-> params, idx |-> 0, enc_state |-> enc.state],
              pmsg1 |-> [enc_pmsg |-> enc.msg]]

\* participant_step1(seed, params, random)
participant_step1(seed, params, random) ==
    LET kp == hostkeypair(seed)
        v == params_validate(params)
        idx == Index(params.hostpubkeys, kp.pubkey)
        enc == encpedpop_participant_step1(seed, params.t, params.hostpubkeys, idx, random)
        fail(e) == [err |-> e, state1 |-> NoState1, pmsg1 |-> <<>>]
    IN  IF ~kp.ok THEN fail(Error("ValueError"))
        ELSE IF v # NoError THEN fail(v)
        ELSE IF idx = -1 THEN fail(Error("ValueError"))
        ELSE [err |-> NoError,
              state1 |-> [params |-> params, idx |-> idx, enc_state |-> enc.state],
              pmsg1 |-> [enc_pmsg |-> enc.msg]]

\* the calls that participant_step1 makes, in order, up to the one that raises
participant_step1_calls(seed, params) ==
    LET kp == hostkeypair(seed)
    IN  IF ~kp.ok THEN <<"hostkeypair">>
        ELSE <<"hostkeypair">> \o hostkeypair_calls(seed) \o
             (IF params_validate(params) # NoError THEN <<"params_validate">>
              ELSE IF Index(params.hostpubkeys, kp.pubkey) = -1
              THEN <<"params_validate", "index">>
              ELSE <<"params_validate", "index", "encpedpop.participant_step1">>)

\* participant_step2 decrypting enc_secshares[0] instead of enc_secshares[idx]
participant_step2_first_share(seed, state1, cmsg1, aux) ==
    LET kp == hostkeypair(seed)
        idx == state1.idx
        enc == encpedpop_participant_step2(state1.enc_state, kp.seckey, cmsg1.enc_cmsg,
                                           cmsg1.enc_secshares[1])
        eq_input == enc.eq_input \o EncSharesBytes(cmsg1.enc_secshares)
        fail(e) == [err |-> e, state2 |-> NoState2, pmsg2 |-> <<>>]
    IN  IF ~kp.ok THEN fail(Error("ValueError"))
        ELSE IF enc.err # NoError THEN fail(enc.err)
        ELSE [err |-> NoError,
              state2 |-> [params |-> state1.params, eq_input |-> eq_input,
                          dkg_output |-> enc.dkg_output],
              pmsg2 |-> [sig |-> certeq_participant_step(kp.seckey, idx, eq_input, aux)]]

\* participant_step2 going on when encpedpop.participant_step2 raised
participant_step2_ignoring_error(seed, state1, cmsg1, aux) ==
    LET kp == hostkeypair(seed)
        idx == state1.idx
        enc == encpedpop_participant_step2(state1.enc_state, kp.seckey, cmsg1.enc_cmsg,
                                           cmsg1.enc_secshares[idx + 1])
        eq_input == enc.eq_input \o EncSharesBytes(cmsg1.enc_secshares)
        fail(e) == [err |-> e, state2 |-> NoState2, pmsg2 |-> <<>>]
    IN  IF ~kp.ok THEN fail(Error("ValueError"))
        ELSE [err |-> NoError,
              state2 |-> [params |-> state1.params, eq_input |-> eq_input,
                          dkg_output |-> enc.dkg_output],
              pmsg2 |-> [sig |-> certeq_participant_step(kp.seckey, idx, eq_input, aux)]]

\* participant_step2(seed, state1, cmsg1); aux is the signature's random_bytes(32)
participant_step2(seed, state1, cmsg1, aux) ==
    LET kp == hostkeypair(seed)
        idx == state1.idx
        enc == encpedpop_participant_step2(state1.enc_state, kp.seckey, cmsg1.enc_cmsg,
                                           cmsg1.enc_secshares[idx + 1])
        eq_input == enc.eq_input \o EncSharesBytes(cmsg1.enc_secshares)
        fail(e) == [err |-> e, state2 |-> NoState2, pmsg2 |-> <<>>]
    IN  IF ~kp.ok THEN fail(Error("ValueError"))
        ELSE IF enc.err # NoError THEN fail(enc.err)
        ELSE [err |-> NoError,
              state2 |-> [params |-> state1.params, eq_input |-> eq_input,
                          dkg_output |-> enc.dkg_output],
              pmsg2 |-> [sig |-> certeq_participant_step(kp.seckey, idx, eq_input, aux)]]

\* participant_finalize returning eq_input alone as recovery data
participant_finalize_without_cert(state2, cmsg2) ==
    IF ~certeq_verify(state2.params.hostpubkeys, state2.eq_input, cmsg2.cert)
    THEN [err |-> Error("SessionNotFinalizedError"), dkg_output |-> NoOutput,
          recovery_data |-> <<>>]
    ELSE [err |-> NoError, dkg_output |-> state2.dkg_output,
          recovery_data |-> state2.eq_input]

\* participant_finalize(state2, cmsg2)
participant_finalize(state2, cmsg2) ==
    IF ~certeq_verify(state2.params.hostpubkeys, state2.eq_input, cmsg2.cert)
    THEN [err |-> Error("SessionNotFinalizedError"), dkg_output |-> NoOutput,
          recovery_data |-> <<>>]
    ELSE [err |-> NoError, dkg_output |-> state2.dkg_output,
          recovery_data |-> state2.eq_input \o cmsg2.cert]

\* -------------------------------------------------------------- coordinator
\* coordinator_step1 keeping the eq_input of EncPedPop without the shares
coordinator_step1_without_shares(pmsgs1, params) ==
    LET v == params_validate(params)
        enc == encpedpop_coordinator_step([i \in 1..Len(pmsgs1) |-> pmsgs1[i].enc_pmsg],
                                          params.t, params.hostpubkeys)
        fail(e) == [err |-> e, state |-> NoState2, cmsg1 |-> <<>>]
    IN  IF v # NoError THEN fail(v)
        ELSE IF enc.err # NoError THEN fail(enc.err)
        ELSE [err |-> NoError,
              state |-> [params |-> params, eq_input |-> enc.eq_input,
                         dkg_output |-> enc.dkg_output],
              cmsg1 |-> [enc_cmsg |-> enc.enc_cmsg, enc_secshares |-> enc.enc_secshares]]

\* coordinator_step1(pmsgs1, params)
coordinator_step1(pmsgs1, params) ==
    LET v == params_validate(params)
        enc == encpedpop_coordinator_step([i \in 1..Len(pmsgs1) |-> pmsgs1[i].enc_pmsg],
                                          params.t, params.hostpubkeys)
        eq_input == enc.eq_input \o EncSharesBytes(enc.enc_secshares)
        fail(e) == [err |-> e, state |-> NoState2, cmsg1 |-> <<>>]
    IN  IF v # NoError THEN fail(v)
        ELSE IF enc.err # NoError THEN fail(enc.err)
        ELSE [err |-> NoError,
              state |-> [params |-> params, eq_input |-> eq_input,
                         dkg_output |-> enc.dkg_output],
              cmsg1 |-> [enc_cmsg |-> enc.enc_cmsg, enc_secshares |-> enc.enc_secshares]]

\* the calls that coordinator_step1 makes, in order, up to the one that raises
coordinator_step1_calls(params) ==
    IF params_validate(params) # NoError THEN <<"params_validate">>
    ELSE <<"params_validate", "encpedpop.coordinator_step">>

\* coordinator_finalize returning the certificate without verifying it
coordinator_finalize_without_verify(state, pmsgs2) ==
    LET cert == certeq_coordinator_step([i \in 1..Len(pmsgs2) |-> pmsgs2[i].sig])
    IN  [err |-> NoError, cmsg2 |-> [cert |-> cert],
         dkg_output |-> state.dkg_output,
         recovery_data |-> state.eq_input \o cert]

\* coordinator_finalize(state, pmsgs2)
coordinator_finalize(state, pmsgs2) ==
    LET cert == certeq_coordinator_step([i \in 1..Len(pmsgs2) |-> pmsgs2[i].sig])
    IN  IF ~certeq_verify(state.params.hostpubkeys, state.eq_input, cert)
        THEN [err |-> Error("SessionNotFinalizedError"), cmsg2 |-> [cert |-> <<>>],
              dkg_output |-> NoOutput, recovery_data |-> <<>>]
        ELSE [err |-> NoError, cmsg2 |-> [cert |-> cert],
              dkg_output |-> state.dkg_output,
              recovery_data |-> state.eq_input \o cert]

\* ----------------------------------------------------------------- recovery
\* the transcript recover hands to certeq_verify: recovery_data[: 64 * n]
recover_transcript(recovery_data, n) == Slice(recovery_data, 0, 64 * n)

\* `if seed:` for a seed that is <<>> (None) or <<bytes>>
recover_has_seed(seed) == seed # <<>> /\ seed[1] # <<>>

\* the branch of recover that finds the index of the seed and decrypts the share,
\* on the parsed recovery data d, without line 641
recover_secshare_without_my_share(seed, d) ==
    LET kp == hostkeypair(seed)
        idx == Index(d.hostpubkeys, kp.pubkey)
        enc_context == serialize_enc_context(d.t, d.hostpubkeys)
        secshare ==
            decrypt_sum(kp.seckey, d.hostpubkeys[idx + 1], Without(d.pubnonces, idx),
                        d.enc_secshares[idx + 1], enc_context, idx)
    IN  IF ~kp.ok THEN [err |-> Error("ValueError"), secshare |-> <<>>]
        ELSE IF idx = -1 THEN [err |-> Error("InvalidRecoveryDataError"), secshare |-> <<>>]
        ELSE IF ~verify_secshare(secshare, pubshare(d.sum_coms, idx))
        THEN [err |-> Error("AssertionError"), secshare |-> <<>>]
        ELSE [err |-> NoError, secshare |-> bytes_from_int(secshare)]

\* the branch of recover that finds the index of the seed, decrypts the share
\* and adds the seed's own share, on the parsed recovery data d
recover_secshare(seed, d) ==
    LET kp == hostkeypair(seed)
        idx == Index(d.hostpubkeys, kp.pubkey)
        enc_context == serialize_enc_context(d.t, d.hostpubkeys)
        their_pubnonces == Without(d.pubnonces, idx)
        pubnonce == d.pubnonces[idx + 1]
        session_seed == derive_session_seed(seed, pubnonce, enc_context)
        my_share == VSS_secshare_for(VSS_generate(session_seed, d.t), idx)
        secshare ==
            (decrypt_sum(kp.seckey, d.hostpubkeys[idx + 1], their_pubnonces,
                         d.enc_secshares[idx + 1], enc_context, idx)
             + my_share) % Q
    IN  IF ~kp.ok THEN [err |-> Error("ValueError"), secshare |-> <<>>]
        ELSE IF idx = -1 THEN [err |-> Error("InvalidRecoveryDataError"), secshare |-> <<>>]
        ELSE IF ~verify_secshare(secshare, pubshare(d.sum_coms, idx))
        THEN [err |-> Error("AssertionError"), secshare |-> <<>>]
        ELSE [err |-> NoError, secshare |-> bytes_from_int(secshare)]

\* recover(seed, recovery_data); seed is <<>> for None and <<bytes>> otherwise
recover(seed, recovery_data) ==
    LET d == deserialize_recovery_data(recovery_data)
        t == d.t
        hostpubkeys == d.hostpubkeys
        n == Len(hostpubkeys)
        params_ == SessionParams(hostpubkeys, t)
        v == params_validate(params_)
        \* the value of certeq_verify is computed and dropped
        verified == certeq_verify(hostpubkeys, recover_transcript(recovery_data, n), d.cert)
        threshold_pubkey == commitment_to_secret(d.sum_coms)
        pubshares == [i \in 1..n |-> pubshare(d.sum_coms, i - 1)]
        fail(e) == [err |-> e, dkg_output |-> NoOutput, params |-> SessionParams(<<>>, 0)]
        done(secshare) ==
            [err |-> NoError,
             dkg_output |-> DKGOutput(secshare, GE_to_bytes(threshold_pubkey),
                                      [i \in 1..n |-> GE_to_bytes(pubshares[i])]),
             params |-> params_]
    IN
    IF ~d.ok THEN fail(Error("InvalidRecoveryDataError"))
    ELSE IF v # NoError THEN fail(v)
    ELSE IF recover_has_seed(seed)
    THEN LET r == recover_secshare(seed[1], d)
         IN  IF r.err # NoError THEN fail(r.err) ELSE done(r.secshare)
    ELSE done(<<>>)

\* ------------------------------------------------------------- the session
VARIABLES
    params,     \* the SessionParams every party of the session was given
    pc,         \* pc[i]: participant i is at "S0", "S1", "S2" or "DONE"
    state1,     \* state1[i]: ParticipantState1 of participant i
    pmsg1,      \* pmsg1[i]: the ParticipantMsg1 of participant i, if sent
    cstate,     \* CoordinatorState, if coordinator_step1 has run
    cmsg1,      \* the CoordinatorMsg1 that coordinator_step1 returned, if any
    cmsg1in,    \* cmsg1in[i]: the CoordinatorMsg1 that participant i accepted
    state2,     \* state2[i]: ParticipantState2 of participant i
    pmsg2,      \* pmsg2[i]: the ParticipantMsg2 of participant i, if sent
    cfin,       \* what coordinator_finalize returned, if it returned
    pout,       \* pout[i]: what participant_finalize returned to i, if it returned
    failed,     \* failed[i]: the latest participant_finalize of i raised
    last        \* the most recent call and its outcome

vars == <<params, pc, state1, pmsg1, cstate, cmsg1, cmsg1in, state2, pmsg2,
          cfin, pout, failed, last>>

N == Len(params.hostpubkeys)
Participants == 1..N

\* the seed of participant i, a seed of no participant, and the random inputs
SeedOf(i) == Zeros(SEED_LEN - 1) \o <<i>>
ForeignSeed == Zeros(SEED_LEN - 1) \o <<MaxN + 1>>
Randoms == {0}
AuxRands == {0}
RandomOf(r) == Zeros(SEED_LEN - 1) \o <<r>>

Init ==
    /\ \E n \in 1..MaxN : \E t \in 1..n :
          params = SessionParams([i \in 1..n |-> hostkeypair(SeedOf(i)).pubkey], t)
    /\ pc = [i \in Participants |-> "S0"]
    /\ state1 = [i \in Participants |-> NoState1]
    /\ pmsg1 = [i \in Participants |-> <<>>]
    /\ cstate = <<>>
    /\ cmsg1 = <<>>
    /\ cmsg1in = [i \in Participants |-> <<>>]
    /\ state2 = [i \in Participants |-> NoState2]
    /\ pmsg2 = [i \in Participants |-> <<>>]
    /\ cfin = <<>>
    /\ pout = [i \in Participants |-> <<>>]
    /\ failed = [i \in Participants |-> FALSE]
    /\ last = [op |-> "init"]

\* recover, params_id, params_validate and the calls of the first steps on other
\* parameters read and write no state of the session: a behaviour looks at one
\* such call, made at any point of the session, and ends with it.
InSession ==
    last.op \notin {"recover", "params_id", "params_validate",
                    "participant_step1_call", "coordinator_step1_call"}

\* Participant i calls participant_step1 with its seed and the random input r.
ParticipantStep1(i, r) ==
    /\ InSession
    /\ pc[i] = "S0"
    /\ LET res == participant_step1(SeedOf(i), params, RandomOf(r))
       IN  /\ res.err = NoError
           /\ state1' = [state1 EXCEPT ![i] = res.state1]
           /\ pmsg1' = [pmsg1 EXCEPT ![i] = <<res.pmsg1>>]
           /\ pc' = [pc EXCEPT ![i] = "S1"]
           /\ last' = [op |-> "participant_step1", who |-> i, err |-> res.err]
    /\ UNCHANGED <<params, cstate, cmsg1, cmsg1in, state2, pmsg2, cfin, pout, failed>>

\* The coordinator has all n first messages and calls coordinator_step1.
CoordinatorStep1 ==
    /\ InSession
    /\ cstate = <<>>
    /\ \A i \in Participants : pmsg1[i] # <<>>
    /\ LET res == coordinator_step1([i \in Participants |-> pmsg1[i][1]], params)
       IN  /\ res.err = NoError
           /\ cstate' = <<res.state>>
           /\ cmsg1' = <<res.cmsg1>>
           /\ last' = [op |-> "coordinator_step1", who |-> 0, err |-> res.err]
    /\ UNCHANGED <<params, pc, state1, pmsg1, cmsg1in, state2, pmsg2, cfin, pout, failed>>

\* What the untrusted coordinator hands to a participant as cmsg1: what
\* coordinator_step1 returned (j = -1), or that with enc_secshares[j] changed.
Delivered(cmsg, j) ==
    IF j = -1 THEN cmsg
    ELSE [cmsg EXCEPT !.enc_secshares[j + 1] = (@ + 1) % Q]

\* the shares the coordinator may change in the cmsg1 for participant i: none,
\* the share of i, the share of the participant after i
Changes(i) == {-1, i - 1, i % N}

\* Participant i receives a cmsg1 and calls participant_step2.
ParticipantStep2(i, j, aux) ==
    /\ InSession
    /\ pc[i] = "S1"
    /\ cmsg1 # <<>>
    /\ LET got == Delivered(cmsg1[1], j)
           res == participant_step2(SeedOf(i), state1[i], got, aux)
       IN  /\ last' = [op |-> "participant_step2", who |-> i, err |-> res.err, j |-> j]
           /\ IF res.err = NoError
              THEN /\ state2' = [state2 EXCEPT ![i] = res.state2]
                   /\ pmsg2' = [pmsg2 EXCEPT ![i] = <<res.pmsg2>>]
                   /\ cmsg1in' = [cmsg1in EXCEPT ![i] = <<got>>]
                   /\ pc' = [pc EXCEPT ![i] = "S2"]
              ELSE UNCHANGED <<state2, pmsg2, cmsg1in, pc>>
    /\ UNCHANGED <<params, state1, pmsg1, cstate, cmsg1, cfin, pout, failed>>

\* the second messages sent so far, in participant order
SentMsgs2 ==
    LET sent == {i \in Participants : pmsg2[i] # <<>>}
        RECURSIVE upto(_)
        upto(i) == IF i = 0 THEN <<>>
                   ELSE IF i \in sent THEN Append(upto(i - 1), pmsg2[i][1])
                   ELSE upto(i - 1)
    IN  upto(N)

Reverse(list) == [i \in 1..Len(list) |-> list[Len(list) + 1 - i]]

\* The lists of second messages the coordinator may be given: those sent, in
\* participant order, in reverse order, without the last one, or with the last
\* one twice.
Msgs2Kinds == {"inorder", "reversed", "short", "long"}
Msgs2(kind) ==
    CASE kind = "inorder" -> SentMsgs2
      [] kind = "reversed" -> Reverse(SentMsgs2)
      [] kind = "short" -> SubSeq(SentMsgs2, 1, Len(SentMsgs2) - 1)
      [] kind = "long" -> Append(SentMsgs2, SentMsgs2[Len(SentMsgs2)])

\* The coordinator calls coordinator_finalize on a list of second messages.
CoordinatorFinalize(kind) ==
    /\ InSession
    /\ cstate # <<>>
    /\ cfin = <<>>
    /\ SentMsgs2 # <<>>
    /\ LET res == coordinator_finalize(cstate[1], Msgs2(kind))
       IN  /\ last' = [op |-> "coordinator_finalize", who |-> 0, err |-> res.err,
                       kind |-> kind, count |-> Len(Msgs2(kind))]
           /\ cfin' = IF res.err = NoError THEN <<res>> ELSE cfin
    /\ UNCHANGED <<params, pc, state1, pmsg1, cstate, cmsg1, cmsg1in, state2, pmsg2,
                   pout, failed>>

\* The certificates the untrusted coordinator may send as cmsg2: the signatures
\* sent so far in participant order, in reverse order, with one byte changed,
\* without the last byte, or with the last signature twice.
CertKinds == {"relayed", "reversed", "mutated", "truncated", "extended"}
Certs(kind) ==
    LET cert == certeq_coordinator_step([i \in 1..Len(SentMsgs2) |-> SentMsgs2[i].sig])
    IN  CASE kind = "relayed" -> cert
          [] kind = "reversed" ->
                certeq_coordinator_step(
                    [i \in 1..Len(SentMsgs2) |-> Reverse(SentMsgs2)[i].sig])
          [] kind = "mutated" -> [cert EXCEPT ![Len(cert)] = (@ + 1) % 256]
          [] kind = "truncated" -> SubSeq(cert, 1, Len(cert) - 1)
          [] kind = "extended" -> cert \o Drop(cert, Len(cert) - SIG_LEN)

\* Participant i receives a cmsg2 and calls participant_finalize.
ParticipantFinalize(i, kind) ==
    /\ InSession
    /\ pc[i] = "S2"
    /\ LET res == participant_finalize(state2[i], [cert |-> Certs(kind)])
       IN  /\ last' = [op |-> "participant_finalize", who |-> i, err |-> res.err,
                       retry |-> failed[i], kind |-> kind]
           /\ IF res.err = NoError
              THEN /\ pout' = [pout EXCEPT ![i] =
                                 <<[dkg_output |-> res.dkg_output,
                                    recovery_data |-> res.recovery_data]>>]
                   /\ pc' = [pc EXCEPT ![i] = "DONE"]
                   /\ failed' = [failed EXCEPT ![i] = FALSE]
              ELSE /\ failed' = [failed EXCEPT ![i] = TRUE]
                   /\ UNCHANGED <<pout, pc>>
    /\ UNCHANGED <<params, state1, pmsg1, cstate, cmsg1, cmsg1in, state2, pmsg2, cfin>>

\* the party whose finalize has just returned recovery data: 0 for the
\* coordinator, i for participant i
JustFinalized ==
    /\ last.op \in {"participant_finalize", "coordinator_finalize"}
    /\ last.err = NoError
RecoveryDataOf(src) ==
    IF src = 0 THEN cfin[1].recovery_data ELSE pout[src][1].recovery_data

\* The byte strings handed to recover: recovery data of the session as returned,
\* or changed in one place.
RecoveryKinds ==
    {"asis", "truncated", "extended", "badcom", "badhostpubkey", "duphostpubkey",
     "tzero", "tlarge", "badcert", "badshare", "shareplusq"}

Changed(b, kind) ==
    LET t == params.t
        n == N
        hpk0 == T_LEN + POINT_LEN * t
        shares0 == hpk0 + 2 * POINT_LEN * n
    IN  CASE kind = "asis" -> b
          [] kind = "truncated" -> SubSeq(b, 1, Len(b) - 1)
          [] kind = "extended" -> b \o <<0>>
          [] kind = "badcom" -> [b EXCEPT ![T_LEN + 1] = 5]
          [] kind = "badhostpubkey" -> [b EXCEPT ![hpk0 + POINT_LEN * (n - 1) + 1] = 5]
          [] kind = "duphostpubkey" ->
                Slice(b, 0, hpk0 + POINT_LEN * (n - 1))
                \o Slice(b, hpk0, hpk0 + POINT_LEN)
                \o Drop(b, hpk0 + POINT_LEN * n)
          [] kind = "tzero" -> int_to_bytes4(0) \o Drop(b, hpk0)
          [] kind = "tlarge" ->
                int_to_bytes4(n + 1) \o Slice(b, T_LEN, hpk0)
                \o Join([k \in 1..(n + 1 - t) |-> GE_to_bytes(G)])
                \o Drop(b, hpk0)
          [] kind = "badcert" -> [b EXCEPT ![Len(b)] = (@ + 1) % 256]
          [] kind = "badshare" -> [b EXCEPT ![shares0 + SCALAR_LEN] = (@ + 1) % 256]
          [] kind = "shareplusq" -> [b EXCEPT ![shares0 + SCALAR_LEN] = @ + Q]

\* the seed arguments of recover: None, a participant's seed, a foreign seed,
\* the empty byte string, a seed of one byte
SeedArgs ==
    {<<>>, <<ForeignSeed>>, <<<<>>>>, <<Zeros(1)>>} \cup {<<SeedOf(i)>> : i \in Participants}

\* every seed is tried on the data as returned, None on the changed data, and
\* the first participant's seed on data with a changed share or certificate
RecoverArgs ==
    {<<seed, "asis">> : seed \in SeedArgs}
    \cup {<<<<>>, kind>> : kind \in RecoveryKinds}
    \cup {<<<<SeedOf(1)>>, kind>> : kind \in {"badshare", "badcert", "tzero"}}

\* Some party calls recover on the recovery data that a finalize just returned,
\* as it is or changed in one place.
Recover(seed, kind) ==
    /\ InSession
    /\ JustFinalized
    /\ last' = [op |-> "recover", seed |-> seed, src |-> last.who, kind |-> kind,
                res |-> recover(seed, Changed(RecoveryDataOf(last.who), kind))]
    /\ UNCHANGED <<params, pc, state1, pmsg1, cstate, cmsg1, cmsg1in, state2, pmsg2,
                   cfin, pout, failed>>

\* the arguments of the last call of recover
LastRecoveryData == Changed(RecoveryDataOf(last.src), last.kind)

\* Host public keys a caller may be given: those of seeds, a string with a bad
\* first byte, one whose x is no point's, one that is too short.
KeyInputs ==
    {hostkeypair(SeedOf(i)).pubkey : i \in 1..2}
    \cup {<<5>> \o Zeros(POINT_LEN - 2) \o <<1>>,
          <<2>> \o Zeros(POINT_LEN - 1),
          <<2>> \o Zeros(POINT_LEN - 3) \o <<1>>}

ParamsInputs ==
    {SessionParams(hpks, t) :
        hpks \in UNION {[1..k -> KeyInputs] : k \in 0..MaxN}, t \in 0..(MaxN + 1)}

\* Before the session starts a caller fingerprints candidate parameters.
ParamsId(p) ==
    /\ InSession
    /\ \A i \in Participants : pc[i] = "S0"
    /\ last' = [op |-> "params_id", params |-> p, res |-> params_id(p),
                validated |-> params_validate(p), calls |-> params_id_calls(p)]
    /\ UNCHANGED <<params, pc, state1, pmsg1, cstate, cmsg1, cmsg1in, state2, pmsg2,
                   cfin, pout, failed>>

\* the seeds a caller may hand to participant_step1: seeds of the keys in
\* KeyInputs, a seed of another key, a seed of 31 bytes
ShortSeed == Zeros(SEED_LEN - 1)
Step1Seeds == {SeedOf(1), SeedOf(2), ForeignSeed, ShortSeed}

\* Before the session starts a caller tries participant_step1 on candidate
\* parameters.
ParticipantStep1Call(seed, p) ==
    /\ InSession
    /\ \A i \in Participants : pc[i] = "S0"
    /\ last' = [op |-> "participant_step1_call", seed |-> seed, params |-> p,
                res |-> participant_step1(seed, p, RandomOf(0)),
                calls |-> participant_step1_calls(seed, p)]
    /\ UNCHANGED <<params, pc, state1, pmsg1, cstate, cmsg1, cmsg1in, state2, pmsg2,
                   cfin, pout, failed>>

\* Before the session starts a coordinator calls coordinator_step1 on candidate
\* parameters that validation rejects (it has no first messages yet).
CoordinatorStep1Call(p) ==
    /\ InSession
    /\ \A i \in Participants : pc[i] = "S0"
    /\ params_validate(p) # NoError
    /\ last' = [op |-> "coordinator_step1_call", params |-> p,
                res |-> coordinator_step1(<<>>, p),
                calls |-> coordinator_step1_calls(p)]
    /\ UNCHANGED <<params, pc, state1, pmsg1, cstate, cmsg1, cmsg1in, state2, pmsg2,
                   cfin, pout, failed>>

\* numbers of keys and thresholds around 2^32
WideInputs ==
    {Wide(Pow(256, 2) - 1, Pow(256, 2) - 1), Wide(Pow(256, 2), 0), Wide(Pow(256, 2), 1)}

\* A caller validates parameters with n pairwise distinct decodable host public
\* keys and the threshold t, for n and t around 2^32.
ParamsValidateWide(n, t) ==
    /\ InSession
    /\ \A i \in Participants : pc[i] = "S0"
    /\ last' = [op |-> "params_validate", n |-> n, t |-> t,
                res |-> params_validate_distinct_keys(n, t)]
    /\ UNCHANGED <<params, pc, state1, pmsg1, cstate, cmsg1, cmsg1in, state2, pmsg2,
                   cfin, pout, failed>>

\* Another session of the same participants with the same parameters, run
\* honestly with other random inputs: its first messages, the coordinator's
\* first step, and the second messages the participants sign in it.
OtherRandom == RandomOf(1)
OtherStep1(i) == participant_step1(SeedOf(i), params, OtherRandom)
OtherCoordinatorStep1 ==
    coordinator_step1([i \in Participants |-> OtherStep1(i).pmsg1], params)
OtherStep2(i) ==
    participant_step2(SeedOf(i), OtherStep1(i).state1, OtherCoordinatorStep1.cmsg1, 0)
OtherMsgs2 == [i \in Participants |-> OtherStep2(i).pmsg2]
OtherEqInput == OtherCoordinatorStep1.state.eq_input

Next ==
    \/ \E i \in Participants, r \in Randoms : ParticipantStep1(i, r)
    \/ CoordinatorStep1
    \/ \E i \in Participants, aux \in AuxRands :
          \E j \in Changes(i) : ParticipantStep2(i, j, aux)
    \/ \E kind \in Msgs2Kinds : CoordinatorFinalize(kind)
    \/ \E i \in Participants, kind \in CertKinds : ParticipantFinalize(i, kind)
    \/ \E a \in RecoverArgs : Recover(a[1], a[2])
    \/ \E p \in ParamsInputs : ParamsId(p)
    \/ \E seed \in Step1Seeds, p \in ParamsInputs : ParticipantStep1Call(seed, p)
    \/ \E p \in ParamsInputs : CoordinatorStep1Call(p)
    \/ \E n \in WideInputs, t \in WideInputs : ParamsValidateWide(n, t)

Spec == Init /\ [][Next]_vars

\* ------------------------------------------------------------------ claims
AllSigned == \A i \in Participants : pmsg2[i] # <<>>

\* every participant accepted the cmsg1 that coordinator_step1 returned
HonestDelivery == \A i \in Participants : cmsg1in[i] = cmsg1

\* C1: two participants that both returned from participant_finalize hold the
\* same eq_input in their ParticipantState2, whatever cmsg1 each was given.
C1_SameTranscript ==
    \A i, k \in Participants :
        (pc[i] = "DONE" /\ pc[k] = "DONE") => state2[i].eq_input = state2[k].eq_input

\* transcripts other than x
OtherTranscripts(x) ==
    {<<>>, [x EXCEPT ![Len(x)] = (@ + 1) % 256], x \o <<0>>} \ {x}

\* C2: a certificate of signatures made over the transcript x verifies for no
\* transcript other than x, and not with a signature replaced by another value.
C2_CertBindsTranscript ==
    (AllSigned /\ \A i \in Participants : state2[i].eq_input = state2[1].eq_input)
    => LET x == state2[1].eq_input
       IN  /\ \A y \in OtherTranscripts(x) :
                 ~certeq_verify(params.hostpubkeys, y, Certs("relayed"))
           /\ ~certeq_verify(params.hostpubkeys, x, Certs("mutated"))
           /\ (N >= 2 => ~certeq_verify(params.hostpubkeys, x, Certs("reversed")))

\* the run of the session was honest and is complete
HonestDone ==
    /\ cfin # <<>>
    /\ HonestDelivery
    /\ \A i \in Participants : pc[i] = "DONE"

\* C3: in an honest run no participant_step2 raises, and when the run is
\* complete all participants and the coordinator hold the same threshold_pubkey
\* and the same n pubshares, the coordinator's secshare is None, and the
\* secshare of participant idx times G is pubshares[idx].
C3_HonestRunAgrees ==
    /\ (last.op = "participant_step2" /\ last.j = -1) => last.err = NoError
    /\ HonestDone =>
        LET c == cfin[1].dkg_output
        IN  /\ c.secshare = <<>>
            /\ Len(c.pubshares) = N
            /\ \A i \in Participants :
                  LET o == pout[i][1].dkg_output
                  IN  /\ o.threshold_pubkey = c.threshold_pubkey
                      /\ o.pubshares = c.pubshares
                      /\ Len(o.secshare) = SCALAR_LEN
                      /\ verify_secshare(Scalar_from_bytes(o.secshare),
                                         GE_from_bytes(o.pubshares[state1[i].idx + 1]))

C3_Witness == HonestDone /\ N = 2 /\ params.t = 2

\* the transcript and certificate contained in the last recovery data
LastParsed == deserialize_recovery_data(LastRecoveryData)
LastTranscript ==
    Slice(LastRecoveryData, 0, Len(LastRecoveryData) - Len(LastParsed.cert))

\* C4: recover returns a DKG output only for recovery data whose certificate
\* verifies against the host public keys and the transcript in the data.
C4_RecoverChecksCert ==
    (last.op = "recover" /\ last.res.err = NoError)
    => certeq_verify(LastParsed.hostpubkeys, LastTranscript, LastParsed.cert)

\* C5: recover with the seed of participant i on the recovery data that
\* participant_finalize returned to i yields the DKGOutput returned to i and the
\* SessionParams of the session; recover with seed None on returned recovery
\* data yields the output with secshare None and the same threshold_pubkey and
\* pubshares, which is the coordinator's.
C5_RecoverRoundTrip ==
    (last.op = "recover" /\ last.kind = "asis") =>
        /\ (last.src # 0 /\ last.seed = <<SeedOf(last.src)>>) =>
              /\ last.res.err = NoError
              /\ last.res.dkg_output = pout[last.src][1].dkg_output
              /\ last.res.params = params
        /\ last.seed = <<>> =>
              LET o == IF last.src = 0 THEN cfin[1].dkg_output
                       ELSE pout[last.src][1].dkg_output
              IN  /\ last.res.err = NoError
                  /\ last.res.params = params
                  /\ last.res.dkg_output =
                        DKGOutput(<<>>, o.threshold_pubkey, o.pubshares)
                  /\ last.res.dkg_output = cstate[1].dkg_output

C5_Witness ==
    /\ last.op = "recover" /\ last.kind = "asis" /\ N = 2 /\ params.t = 2
    /\ last.src = 2 /\ last.seed = <<SeedOf(2)>>
    /\ last.res.err = NoError /\ Len(last.res.dkg_output.secshare) = SCALAR_LEN

\* C6: a participant that completed participant_step2 and has not finalized
\* obtains, by recover with its seed on the recovery data another party's
\* finalize returned, the DKGOutput its own finalize would return.
C6_RecoverAfterNoFinalize ==
    \A i \in Participants :
        (/\ last.op = "recover" /\ last.kind = "asis"
         /\ last.seed = <<SeedOf(i)>> /\ last.src # i
         /\ pc[i] = "S2")
        => /\ last.res.err = NoError
           /\ last.res.dkg_output = state2[i].dkg_output

\* the certificate at the end of recovery data rd
CertOf(rd) == Drop(rd, Len(rd) - certeq_cert_len(N))

\* C7 (states): a participant whose participant_finalize raised has no output
\* and still holds its ParticipantState2, on which participant_finalize returns,
\* for every cmsg2 that verifies, the state's DKG output and eq_input || cert;
\* and that is what a participant that is done was returned.
C7_States ==
    \A i \in Participants :
        /\ (failed[i] /\ pc[i] = "S2") =>
              /\ pout[i] = <<>>
              /\ state2[i] # NoState2
              /\ \A kind \in {"relayed", "reversed", "mutated"} :
                    certeq_verify(params.hostpubkeys, state2[i].eq_input, Certs(kind))
                    => participant_finalize(state2[i], [cert |-> Certs(kind)])
                       = [err |-> NoError, dkg_output |-> state2[i].dkg_output,
                          recovery_data |-> state2[i].eq_input \o Certs(kind)]
        /\ pc[i] = "DONE" =>
              /\ pout[i][1].dkg_output = state2[i].dkg_output
              /\ pout[i][1].recovery_data
                    = state2[i].eq_input \o CertOf(pout[i][1].recovery_data)
              /\ certeq_verify(params.hostpubkeys, state2[i].eq_input,
                               CertOf(pout[i][1].recovery_data))

\* C7 (steps): a participant_finalize that raises changes no participant's
\* state and returns nothing.
C7_Steps ==
    (last'.op = "participant_finalize" /\ last'.err # NoError)
    => /\ last'.err = Error("SessionNotFinalizedError")
       /\ UNCHANGED <<params, pc, state1, state2, pout, pmsg2>>

\* C7: when participant_finalize raises SessionNotFinalizedError it returns no
\* output and leaves the ParticipantState2 unchanged, so that a later
\* participant_finalize on it with a valid cmsg2 returns the state's DKG output
\* with recovery data eq_input || cert.
C7_FinalizeFailureKeepsState == []C7_States /\ [][C7_Steps]_vars

C7_Witness ==
    /\ last.op = "participant_finalize" /\ last.err = NoError /\ last.retry
    /\ pc[last.who] = "DONE" /\ N = 2

\* the layout of recovery data for the cmsg1 and certificate of a party
Layout(cm, cert) ==
    int_to_bytes4(params.t)
    \o Join([k \in 1..params.t |-> GE_to_bytes(cm.enc_cmsg.sum_coms[k])])
    \o Join(params.hostpubkeys)
    \o Join(cm.enc_cmsg.pubnonces)
    \o Join([k \in 1..N |-> bytes_from_int(cm.enc_secshares[k])])
    \o cert

WellFormed(rd, cm) ==
    LET d == deserialize_recovery_data(rd)
    IN  /\ Len(rd) = 4 + 33 * params.t + 162 * N
        /\ rd = Layout(cm, CertOf(rd))
        /\ d.ok
        /\ d.t = params.t
        /\ d.hostpubkeys = params.hostpubkeys
        /\ d.enc_secshares = cm.enc_secshares
        /\ d.cert = CertOf(rd)

\* C8: recovery data returned by participant_finalize or coordinator_finalize
\* has length 4 + 33t + 162n, is t || sum_coms || hostpubkeys || pubnonces ||
\* enc_secshares || cert, and deserialize_recovery_data returns from it the
\* session's t, hostpubkeys, enc_secshares and cert.
C8_RecoveryDataLayout ==
    JustFinalized =>
        IF last.who = 0
        THEN /\ WellFormed(cfin[1].recovery_data, cmsg1[1])
             /\ CertOf(cfin[1].recovery_data) = cfin[1].cmsg2.cert
        ELSE WellFormed(pout[last.who][1].recovery_data, cmsg1in[last.who][1])

C8_Witness ==
    /\ JustFinalized /\ last.who = 2
    /\ N = 2 /\ params.t = 2 /\ cfin # <<>>
    /\ Len(pout[2][1].recovery_data) = 394
    /\ Len(cfin[1].recovery_data) = 394

\* C9: when recover does not return because the recovery data is invalid or
\* does not match the seed, it raises InvalidRecoveryDataError.
C9_OnlyInvalidRecoveryDataError ==
    (/\ last.op = "recover"
     /\ \/ last.kind \in {"truncated", "extended", "badcom", "badhostpubkey",
                          "tzero", "tlarge"}
        \/ (last.kind = "duphostpubkey" /\ N >= 2)
        \/ (last.kind = "asis" /\ last.seed = <<ForeignSeed>>))
    => last.res.err = Error("InvalidRecoveryDataError")

\* C10: params_validate returns exactly when 1 <= t <= n, every host public key
\* decodes and the keys are pairwise distinct; else it raises ThresholdError
\* when t is outside [1, n], else InvalidContributionError(i) for the first
\* undecodable key i, else DuplicateHostpubkeyError.
C10_ParamsValidate ==
    last.op = "params_id" =>
        LET hpks == last.params.hostpubkeys
            t == last.params.t
            n == Len(hpks)
            inRange == 1 <= t /\ t <= n
            undecodable == {i \in 0..(n - 1) : ~GE_valid(hpks[i + 1])}
            distinct == \A i, k \in 1..n : i # k => hpks[i] # hpks[k]
            r == last.validated
        IN  /\ r = NoError <=> (inRange /\ undecodable = {} /\ distinct)
            /\ ~inRange => r = Error("ThresholdError")
            /\ (inRange /\ undecodable # {}) =>
                  /\ r.kind = "InvalidContributionError"
                  /\ r.i \in undecodable
                  /\ \A k \in undecodable : r.i <= k
            /\ (inRange /\ undecodable = {} /\ ~distinct) =>
                  r = Error("DuplicateHostpubkeyError")
            /\ last.res.err = r

C10_Witness ==
    /\ last.op = "params_id"
    /\ Len(last.params.hostpubkeys) = 2
    /\ last.params.hostpubkeys[1] = last.params.hostpubkeys[2]
    /\ last.validated = InvalidContributionError(0)

\* C13: when the coordinator changes enc_secshares[i] in the cmsg1 it delivers to
\* participant i, participant_step2 of i raises InvalidContributionError and i
\* gets no state, message or output from it; a participant that is past
\* participant_step2 accepted a cmsg1 with its own encrypted share unchanged.
C13_ChangedOwnShareRejected ==
    \A i \in Participants :
        /\ (last.op = "participant_step2" /\ last.who = i /\ last.j = i - 1) =>
              /\ last.err.kind = "InvalidContributionError"
              /\ pc[i] = "S1"
              /\ state2[i] = NoState2 /\ pmsg2[i] = <<>> /\ pout[i] = <<>>
        /\ pc[i] \in {"S2", "DONE"} =>
              cmsg1in[i][1].enc_secshares[i] = cmsg1[1].enc_secshares[i]

C13_Witness ==
    /\ last.op = "participant_step2" /\ last.who = 2 /\ last.j = 1
    /\ last.err.kind = "InvalidContributionError"
    /\ N = 2 /\ pc[1] = "S2"

\* C17: a participant that was handed the cmsg1 of coordinator_step1 unmodified
\* computes the eq_input that coordinator_step1 stored, and when every
\* participant was, all recovery data returned by participant_finalize and by
\* coordinator_finalize are the same byte string.
C17_HonestTranscriptsAgree ==
    /\ \A i \in Participants :
          (pc[i] \in {"S2", "DONE"} /\ cmsg1in[i] = cmsg1)
          => state2[i].eq_input = cstate[1].eq_input
    /\ HonestDelivery =>
          \A i \in Participants : pc[i] = "DONE" =>
              /\ \A k \in Participants : pc[k] = "DONE" =>
                    pout[i][1].recovery_data = pout[k][1].recovery_data
              /\ cfin # <<>> => pout[i][1].recovery_data = cfin[1].recovery_data

C17_Witness ==
    /\ HonestDone /\ N = 2
    /\ pout[1][1].recovery_data = pout[2][1].recovery_data
    /\ pout[2][1].recovery_data = cfin[1].recovery_data
    /\ Len(cfin[1].recovery_data) > 0

\* C18: the i-th signature of a certificate that coordinator_finalize returns
\* verifies against hostpubkeys[i] over the message of index i, and given the
\* n >= 2 second messages in reverse order coordinator_finalize raises
\* SessionNotFinalizedError and returns no cmsg2.
C18_PositionBoundToIndex ==
    /\ (last.op = "coordinator_finalize" /\ last.kind = "reversed" /\ last.count >= 2) =>
          /\ last.err = Error("SessionNotFinalizedError")
          /\ cfin = <<>>
    /\ cfin # <<>> =>
          \A i \in 0..(N - 1) :
              schnorr_verify(int_to_bytes4(i),
                             Slice(params.hostpubkeys[i + 1], 1, POINT_LEN),
                             Slice(cfin[1].cmsg2.cert, SIG_LEN * i, SIG_LEN * (i + 1)),
                             CERTEQ_MSG_TAG)

C18_Witness ==
    /\ last.op = "coordinator_finalize" /\ last.kind = "reversed"
    /\ last.count = 2 /\ N = 2 /\ AllSigned
    /\ last.err = Error("SessionNotFinalizedError")

\* C19: certeq_verify is false for every certificate whose length is not 64n;
\* coordinator_finalize given fewer or more than n second messages, and
\* participant_finalize given a truncated or an extended certificate, raise
\* SessionNotFinalizedError.
C19_WrongLengthRejected ==
    /\ \A kind \in CertKinds, i \in Participants :
          (SentMsgs2 # <<>> /\ Len(Certs(kind)) # certeq_cert_len(N))
          => ~certeq_verify(params.hostpubkeys, state2[i].eq_input, Certs(kind))
    /\ (last.op = "coordinator_finalize" /\ last.count # N) =>
          /\ last.err = Error("SessionNotFinalizedError")
          /\ cfin = <<>>
    /\ (last.op = "participant_finalize" /\ last.kind \in {"truncated", "extended"}
        /\ Len(Certs(last.kind)) # certeq_cert_len(N)) =>
          /\ last.err = Error("SessionNotFinalizedError")
          /\ pc[last.who] = "S2" /\ pout[last.who] = <<>>

C19_Witness ==
    /\ last.op = "participant_finalize" /\ last.kind = "extended"
    /\ N = 2 /\ AllSigned /\ Len(Certs("extended")) = SIG_LEN * 3
    /\ certeq_verify(params.hostpubkeys, state2[last.who].eq_input, Certs("relayed"))
    /\ last.err = Error("SessionNotFinalizedError")

\* C16: the transcript that recover hands to certeq_verify is the recovery data
\* without its trailing 64n-byte certificate, and for recovery data as returned
\* by a finalize it is the eq_input that the party signed or stored.
C16_RecoverTranscriptIsEqInput ==
    (last.op = "recover" /\ LastParsed.ok) =>
        LET rd == LastRecoveryData
            n == Len(LastParsed.hostpubkeys)
        IN  /\ recover_transcript(rd, n) = Slice(rd, 0, Len(rd) - certeq_cert_len(n))
            /\ last.kind = "asis" =>
                  recover_transcript(rd, n)
                  = (IF last.src = 0 THEN cstate[1].eq_input
                     ELSE state2[last.src].eq_input)

\* C15: participant_finalize and coordinator_finalize return only when every
\* participant has run participant_step2 of the session and the certificate is
\* made of their signatures; the signatures that the participants made in
\* another session with the same host keys and another transcript make neither
\* of them return.
C15_CertificateUnanimous ==
    /\ \A i \in Participants : pc[i] = "DONE" =>
          /\ AllSigned
          /\ CertOf(pout[i][1].recovery_data) = Certs("relayed")
    /\ cfin # <<>> => (AllSigned /\ cfin[1].cmsg2.cert = Certs("relayed"))
    /\ \A i \in Participants :
          (pc[i] = "S2" /\ OtherEqInput # state2[i].eq_input) =>
              participant_finalize(
                  state2[i], [cert |-> certeq_coordinator_step(
                                  [k \in Participants |-> OtherMsgs2[k].sig])]).err
              = Error("SessionNotFinalizedError")
    /\ (cstate # <<>> /\ OtherEqInput # cstate[1].eq_input) =>
          coordinator_finalize(cstate[1], OtherMsgs2).err
          = Error("SessionNotFinalizedError")

\* C11: params_validate rejects every SessionParams whose t is 2^32 or more, with
\* an overflow error when 1 <= t <= n holds.
C11_ValidateRejectsWideThreshold ==
    (last.op = "params_validate" /\ ~WideFits4Bytes(last.t)) =>
        /\ last.res # NoError
        /\ (WideLeq(Wide(0, 1), last.t) /\ WideLeq(last.t, last.n))
           => last.res = Error("OverflowError")

\* the derivations, generations, hashes and signatures among the calls
CryptoCalls ==
    {"prf", "pubkey_gen_plain", "tagged_hash_bip_dkg", "encpedpop.participant_step1",
     "encpedpop.coordinator_step"}

\* parameters with t = 0, t > n or a repeated host public key
Rejectable(p) ==
    \/ p.t = 0
    \/ p.t > Len(p.hostpubkeys)
    \/ \E i, k \in 1..Len(p.hostpubkeys) : i # k /\ p.hostpubkeys[i] = p.hostpubkeys[k]

\* C12: participant_step1, coordinator_step1 and params_id reject parameters
\* with t = 0, t > n or duplicate host public keys, and make no key derivation,
\* nonce derivation, VSS generation, hash or signature before they do.
C12_RejectedBeforeCryptoWork ==
    (/\ last.op \in {"participant_step1_call", "coordinator_step1_call", "params_id"}
     /\ Rejectable(last.params))
    => /\ last.res.err # NoError
       /\ \A k \in 1..Len(last.calls) : last.calls[k] \notin CryptoCalls

\* the error kinds that are ValueError or one of its subclasses
ValueErrorKinds == {"ValueError", "ThresholdError", "DuplicateHostpubkeyError"}

\* the host public key of the seed of 32 bytes occurs in the list
KeyPresent(seed, hostpubkeys) ==
    \E k \in 1..Len(hostpubkeys) : hostpubkeys[k] = hostkeypair(seed).pubkey

C22_NoSecshareOnlyWithoutSeed ==
    (last.op = "recover" /\ last.res.err = NoError) =>
        LET out == last.res.dkg_output
        IN  /\ out.secshare = <<>> => last.seed = <<>>
            /\ last.seed # <<>> =>
                  LET idx == Index(last.res.params.hostpubkeys,
                                   hostkeypair(last.seed[1]).pubkey)
                  IN  /\ Len(out.secshare) = SCALAR_LEN
                      /\ idx # -1
                      /\ PointMul(Scalar_from_bytes(out.secshare), G)
                         = GE_from_bytes(out.pubshares[idx + 1])

\* the parsed fields d written back in the order deserialize_recovery_data reads
\* them: t in 4 bytes, sum_coms, hostpubkeys, pubnonces, enc_secshares as
\* 32-byte big-endian scalars, cert
serialize_recovery_data(d) ==
    int_to_bytes4(d.t) \o VSSCommitment_to_bytes(d.sum_coms) \o Join(d.hostpubkeys)
    \o Join(d.pubnonces) \o EncSharesBytes(d.enc_secshares) \o d.cert

\* C21: every byte string that deserialize_recovery_data accepts is the
\* serialization of the fields it parses to, and of two byte strings that parse
\* to the same fields neither differs from the other.
C21_CodecRoundTrip ==
    (last.op = "recover" /\ LastParsed.ok) =>
        /\ serialize_recovery_data(LastParsed) = LastRecoveryData
        /\ LastParsed = deserialize_recovery_data(RecoveryDataOf(last.src))
           => LastRecoveryData = RecoveryDataOf(last.src)

====
